---- MODULE Spec2Model ----
(***************************************************************************)
(* Handle wrappers, callback registration records and callback trampolines *)
(* of src/src/spotify_stubs.c (OCaml stubs for libspotify).                *)
(*                                                                         *)
(* The application thread calls the stubs while it holds the OCaml runtime *)
(* (no stub enters a blocking section); the native library invokes the     *)
(* trampolines on its own threads, or synchronously on the application     *)
(* thread from inside sp_session_process_events or a native create.        *)
(*                                                                         *)
(* Specifications:                                                         *)
(*   Spec           handle lifecycle on the application thread             *)
(*   SpecStubs      stubs forwarding handles to native calls that can fail *)
(*   SpecCallbacks  trampolines, requests, polling, native threads         *)
(*   SpecRequests   request handles dropped and collected                  *)
(*   SpecBlocking   scheduling of the runtime lock, with fairness          *)
(*   SpecDelivery   music_delivery                                         *)
(*   SpecCompare    spotify_compare / spotify_hash                         *)
(***************************************************************************)
EXTENDS Integers, Sequences, FiniteSets, TLC

\* Bounds of the model.
MaxWrappers == 2      \* custom blocks allocated by alloc_<kind> in one run
MaxObj == 1           \* native objects per plain kind
MaxRec == 2           \* userdata / search / albumbrowse records malloc'ed in one run
MaxNative == 2        \* threads of the native library
MaxCode == 2          \* sp_error codes 0 (SP_ERROR_OK) .. MaxCode
MaxFrames == 3        \* num_frames of one music_delivery
MaxChannels == 2      \* format->channels
IntBits == 6          \* width of a C int, scaled down (32 in the build)
ValBits == 7          \* width of an OCaml integer, scaled down (63 in the build)
PtrBits == 7          \* width of an address, scaled down (64 in the build)

NULL == 0
App == 0

Wrappers == 1..MaxWrappers
Obj == 1..MaxObj
Recs == 1..MaxRec
Native == 1..MaxNative
Threads == {App} \cup Native
Codes == 0..MaxCode

\* DEFINE_OPS kinds, DEFINE_OPS_WITH_CALLBACK kinds, and the session.
PlainKinds == {"track", "album", "artist", "link", "user", "playlistcontainer"}
\* The DEFINE_OPS kinds that also have an ocaml_spotify_<kind>_release stub.
ReleaseKinds == {"track", "album", "artist", "link"}
CbKinds == {"search", "albumbrowse"}
RecKinds == CbKinds \cup {"session"}
Kinds == PlainKinds \cup RecKinds

VARIABLES
  wrapper,     \* custom blocks: state, kind, wrapped pointer, held by managed code
  refs,        \* per native object: references owned by the wrapper layer
  rec,         \* struct userdata / struct search / struct albumbrowse records
  app,         \* the application thread: which stub it is in, and where
  registered,  \* threads registered with the runtime (caml_c_thread_register)
  holds,       \* threads holding the runtime system
  cb,          \* per thread: the trampoline invocation in progress
  nrel,        \* per wrapper: native sp_<kind>_release calls made for it
  xrel,        \* per wrapper: explicit ocaml_spotify_<kind>_release calls returned:
               \* "never", "once" or "again" (more than once)
  outcome,     \* the latest get_<kind>: the wrapper read and what it returned
  halted,      \* the process has terminated
  call         \* the latest call whose outcome is observed: the function, its
               \* inputs, what it passed on and what it returned or raised

vars == <<wrapper, refs, rec, app, registered, holds, cb, nrel, xrel, outcome, halted,
          call>>

NoWrapper == [st |-> "unalloc", kind |-> "none", ptr |-> NULL, held |-> FALSE]
NoRec == [kind |-> "none", mem |-> "unalloc", init |-> FALSE, rootCb |-> FALSE,
          rootW |-> FALSE, sp |-> "none", w |-> NULL, fired |-> FALSE]
NoCb == [pc |-> "idle", reg |-> FALSE, r |-> NULL, read |-> "none",
         wasReg |-> FALSE, wasHolds |-> FALSE]
NoOutcome == [w |-> NULL, res |-> "none"]
AppManaged == [pc |-> "managed", w |-> NULL, r |-> NULL, i |-> 0]
NoCall == [what |-> "none"]

Init ==
  /\ wrapper = [w \in Wrappers |-> NoWrapper]
  /\ refs = [p \in PlainKinds \X Obj |-> 0]
  /\ rec = [r \in Recs |-> NoRec]
  /\ app = AppManaged
  /\ registered = [t \in Threads |-> t = App]
  /\ holds = [t \in Threads |-> t = App]
  /\ cb = [t \in Threads |-> NoCb]
  /\ nrel = [w \in Wrappers |-> 0]
  /\ xrel = [w \in Wrappers |-> "never"]
  /\ outcome = NoOutcome
  /\ halted = FALSE
  /\ call = NoCall

\* The application thread is running managed code (between two stub calls).
InManaged == ~halted /\ app.pc = "managed" /\ cb[App].pc = "idle"

\* caml_alloc_custom returns a fresh block: the lowest unused slot.
FreshWrapper(w) ==
  /\ wrapper[w].st = "unalloc"
  /\ \A v \in Wrappers : v < w => wrapper[v].st # "unalloc"

\* xmalloc returns a fresh record: the lowest unused slot.
FreshRec(r) ==
  /\ rec[r].mem = "unalloc"
  /\ \A q \in Recs : q < r => rec[q].mem # "unalloc"

\* alloc_<kind>(p): stores the pointer as given, held by the managed caller.
alloc(k, p) == [st |-> "live", kind |-> k, ptr |-> p, held |-> TRUE]

\* get_<kind>(x): the "spotify:null" exception when the pointer is NULL.
get_never_raises(p) == FALSE
get_raises(p) == p = NULL

get_result(p) == IF get_raises(p) THEN "null" ELSE "ok"

\* sp_<kind>_add_ref / sp_<kind>_release as seen by the wrapper layer.
sp_add_ref(rf, k, p) == IF p \in Obj THEN [rf EXCEPT ![<<k, p>>] = @ + 1] ELSE rf
sp_release(rf, k, p) == IF p \in Obj THEN [rf EXCEPT ![<<k, p>>] = @ - 1] ELSE rf

\* One more explicit release call has returned.
called(n) == IF n = "never" THEN "once" ELSE "again"

\* `if (name)` of name##_finalize.
finalize_guard_always(p) == TRUE
finalize_guard(p) == p # NULL

\* `<Kind>_val(x) = NULL` of ocaml_spotify_<kind>_release.
release_store_keep(p) == p
release_store(p) == NULL

\* The exceptions a stub raises: caml_raise(*caml_named_value("spotify:null"))
\* in get_<kind>, and fail(func, error), which raises "spotify:error" with the
\* name of the native function and Val_int(error).
NoExn == [exn |-> "none"]
NullExn == [exn |-> "spotify:null"]
fail(func, error) == [exn |-> "spotify:error", func |-> func, code |-> error]

\* `if (error) fail(...)`.
error_raises_never(error) == FALSE
error_raises(error) == error # 0

\* What one stub call did: the native function it forwards to, whether one of
\* its handle arguments held NULL, whether the native function was called, the
\* code that returned, and the exception the stub raised.
StubCall(fn, nullIn, native, code, raised) ==
  [what |-> "stub", fn |-> fn, nullIn |-> nullIn, native |-> native,
   code |-> code, raised |-> raised]

\* The stubs that wrap a native pointer: the kind of the handle they read (or
\* "none"), the kind they return, and whether the native call returns a borrowed
\* pointer (the stub then calls sp_<kind>_add_ref) or a fresh reference.
Stub(n, s, d, b) == [name |-> n, src |-> s, dst |-> d, borrowed |-> b]

Stubs == {
  Stub("localtrack_create", "none", "track", FALSE),
  Stub("link_create_from_string", "none", "link", FALSE),
  Stub("link_create_from_track", "track", "link", FALSE),
  Stub("link_create_from_album", "album", "link", FALSE),
  Stub("link_create_from_artist", "artist", "link", FALSE),
  Stub("link_create_from_search", "search", "link", FALSE),
  Stub("link_create_from_user", "user", "link", FALSE),
  Stub("session_user", "session", "user", TRUE),
  Stub("session_friend", "session", "user", TRUE),
  Stub("session_playlistcontainer", "session", "playlistcontainer", TRUE),
  Stub("link_as_user", "link", "user", TRUE),
  Stub("link_as_track", "link", "track", TRUE),
  Stub("link_as_album", "link", "album", TRUE),
  Stub("link_as_artist", "link", "artist", TRUE),
  Stub("track_artist", "track", "artist", TRUE),
  Stub("track_album", "track", "album", TRUE),
  Stub("album_artist", "album", "artist", TRUE),
  Stub("albumbrowse_album", "albumbrowse", "album", TRUE),
  Stub("albumbrowse_artist", "albumbrowse", "artist", TRUE),
  Stub("albumbrowse_track", "albumbrowse", "track", TRUE),
  Stub("search_track", "search", "track", TRUE),
  Stub("search_album", "search", "album", TRUE),
  Stub("search_artist", "search", "artist", TRUE) }

\* `if (track) sp_track_add_ref(track);` before alloc_track(track).
accessor_no_add_ref(rf, k, p) == rf
accessor_add_ref(rf, k, p) == IF p # NULL THEN sp_add_ref(rf, k, p) ELSE rf

\* A native constructor hands its caller one reference to the object it returns.
constructor_ref(rf, k, p) == sp_add_ref(rf, k, p)

\* Managed code may pass the stubs any wrapper it still holds.
Usable(w) == wrapper[w].st = "live" /\ wrapper[w].held

\* ocaml_spotify_localtrack_create, ocaml_spotify_link_create_from_string.
Construct(s, w, p) ==
  /\ InManaged
  /\ s.src = "none"
  /\ FreshWrapper(w)
  /\ wrapper' = [wrapper EXCEPT ![w] = alloc(s.dst, p)]
  /\ refs' = constructor_ref(refs, s.dst, p)
  /\ UNCHANGED <<rec, app, registered, holds, cb, nrel, xrel, outcome, halted, call>>

\* ocaml_spotify_link_as_track and the other stubs that read one handle and wrap
\* the pointer the native call returns.
WrapFrom(s, v, w, p) ==
  /\ InManaged
  /\ s.src # "none"
  /\ Usable(v)
  /\ wrapper[v].kind = s.src
  /\ FreshWrapper(w)
  /\ outcome' = [w |-> v, res |-> get_result(wrapper[v].ptr)]
  /\ IF get_raises(wrapper[v].ptr)
       THEN UNCHANGED <<wrapper, refs>>
       ELSE /\ wrapper' = [wrapper EXCEPT ![w] = alloc(s.dst, p)]
            /\ refs' = IF s.borrowed THEN accessor_add_ref(refs, s.dst, p)
                                     ELSE constructor_ref(refs, s.dst, p)
  /\ UNCHANGED <<rec, app, registered, holds, cb, nrel, xrel, halted, call>>

\* ocaml_spotify_track_is_loaded and the other property accessors: get_<kind>,
\* then a native call that changes nothing the wrapper layer owns.
Get(w) ==
  /\ InManaged
  /\ Usable(w)
  /\ outcome' = [w |-> w, res |-> get_result(wrapper[w].ptr)]
  /\ UNCHANGED <<wrapper, refs, rec, app, registered, holds, cb, nrel, xrel, halted, call>>

\* name##_finalize of DEFINE_OPS: the references and release counts it leaves.
plain_finalize(w) ==
  LET p == wrapper[w].ptr IN
  IF finalize_guard(p)
    THEN [refs |-> sp_release(refs, wrapper[w].kind, p),
          nrel |-> [nrel EXCEPT ![w] = @ + 1]]
    ELSE [refs |-> refs, nrel |-> nrel]

\* ocaml_spotify_track_release (and link, album, artist): finalize, then NULL.
ReleasePlain(w) ==
  /\ InManaged
  /\ Usable(w)
  /\ wrapper[w].kind \in ReleaseKinds
  /\ refs' = plain_finalize(w).refs
  /\ nrel' = plain_finalize(w).nrel
  /\ wrapper' = [wrapper EXCEPT ![w].ptr = release_store(@)]
  /\ xrel' = [xrel EXCEPT ![w] = called(@)]
  /\ outcome' = NoOutcome
  /\ UNCHANGED <<rec, app, registered, holds, cb, halted, call>>

\* Managed code drops its last reference to a wrapper.
Drop(w) ==
  /\ InManaged
  /\ Usable(w)
  /\ wrapper' = [wrapper EXCEPT ![w].held = FALSE]
  /\ UNCHANGED <<refs, rec, app, registered, holds, cb, nrel, xrel, outcome, halted, call>>

\* ------------------------------------------------------------------------
\* Callback registration records: struct userdata, struct search,
\* struct albumbrowse.

\* The statements of session_finalize and of name##_finalize
\* (DEFINE_OPS_WITH_CALLBACK) inside `if (...) { }`, in program order.
session_finalize_body == <<"unroot_wrapper", "unroot_callback", "free", "sp_release">>
callback_finalize_body == <<"unroot_callback", "unroot_wrapper", "sp_release", "free">>

finalize_body(k) ==
  IF k = "session" THEN session_finalize_body ELSE callback_finalize_body

\* One statement of a finalizer, on record r of wrapper w; s = [rec, nrel].
effect(s, e, r, w) ==
  CASE e = "unroot_wrapper" -> [s EXCEPT !.rec[r].rootW = FALSE]
    [] e = "unroot_callback" -> [s EXCEPT !.rec[r].rootCb = FALSE]
    [] e = "free" -> [s EXCEPT !.rec[r].mem = "freed"]
    [] e = "sp_release" -> [s EXCEPT !.rec[r].sp = "released", !.nrel[w] = @ + 1]

RECURSIVE run(_, _, _, _)
run(s, es, r, w) ==
  IF es = <<>> THEN s ELSE run(effect(s, Head(es), r, w), Tail(es), r, w)

\* The native function that starts a request of kind k.
create_fn(k) == IF k = "search" THEN "sp_search_create" ELSE "sp_albumbrowse_create"

\* `if (session)` of session_finalize, `if (name)` of the callback kinds.
record_guard_always(p) == TRUE
record_guard(p) == p # NULL

\* A finalizer run in one piece (by the garbage collector).
record_finalize(w) ==
  LET p == wrapper[w].ptr IN
  IF record_guard(p)
    THEN run([rec |-> rec, nrel |-> nrel], finalize_body(wrapper[w].kind), p, w)
    ELSE [rec |-> rec, nrel |-> nrel]

\* A registered global root of a record that is still allocated keeps the
\* wrapper it points at alive.
Pinned(w) ==
  \E r \in Recs : rec[r].mem = "allocated" /\ rec[r].rootW /\ rec[r].w = w

\* ocaml_spotify_session_create: the record and the NULL wrapper are made and
\* both roots registered before sp_session_create; on an error the record is
\* freed and "spotify:error" raised (the caller never receives the wrapper).
SessionCreate(w, r, error) ==
  /\ InManaged
  /\ FreshWrapper(w)
  /\ FreshRec(r)
  /\ rec' = [rec EXCEPT ![r] =
       [kind |-> "session", mem |-> IF error_raises(error) THEN "freed" ELSE "allocated",
        init |-> TRUE, rootCb |-> TRUE, rootW |-> TRUE,
        sp |-> IF error_raises(error) THEN "none" ELSE "alive", w |-> w,
        fired |-> FALSE]]
  /\ wrapper' = [wrapper EXCEPT ![w] =
       IF error_raises(error) THEN [alloc("session", NULL) EXCEPT !.held = FALSE]
                              ELSE alloc("session", r)]
  /\ call' = StubCall("sp_session_create", FALSE, TRUE, error,
                      IF error_raises(error) THEN fail("sp_session_create", error)
                                             ELSE NoExn)
  /\ UNCHANGED <<refs, app, registered, holds, cb, nrel, xrel, outcome, halted>>

\* ocaml_spotify_search_create, ocaml_spotify_radio_search_create and
\* ocaml_spotify_albumbrowse_create, up to the return of the native create:
\* the record is malloc'ed, then get_session(session) is evaluated, then the
\* native request is started with the record as userdata. albumbrowse_create
\* also takes an album handle, of which it passes on Album_val(album) as it is:
\* a is the pointer that handle holds (NULL for the search stubs, which take
\* no second handle).
CreateStart(k, v, a, r) ==
  /\ InManaged
  /\ k \in CbKinds
  /\ k = "search" => a = NULL
  /\ Usable(v)
  /\ wrapper[v].kind = "session"
  /\ FreshRec(r)
  /\ \E w \in Wrappers : FreshWrapper(w)
  /\ outcome' = [w |-> v, res |-> get_result(wrapper[v].ptr)]
  /\ IF get_raises(wrapper[v].ptr)
       THEN /\ rec' = [rec EXCEPT ![r] = [NoRec EXCEPT !.kind = k, !.mem = "allocated"]]
            /\ app' = app
            /\ call' = StubCall(create_fn(k), TRUE, FALSE, 0, NullExn)
       ELSE /\ rec' = [rec EXCEPT ![r] =
                 [NoRec EXCEPT !.kind = k, !.mem = "allocated", !.sp = "alive"]]
            /\ app' = [pc |-> "create", w |-> v, r |-> r, i |-> 0]
            /\ call' = StubCall(create_fn(k), k = "albumbrowse" /\ a = NULL, TRUE, 0, NoExn)
  /\ UNCHANGED <<wrapper, refs, registered, holds, cb, nrel, xrel, halted>>

\* ... and from there: the fields are written, the wrapper allocated, both
\* roots registered, the wrapper returned.
CreateFinish(w) ==
  /\ ~halted
  /\ app.pc = "create"
  /\ cb[App].pc = "idle"
  /\ FreshWrapper(w)
  /\ rec' = [rec EXCEPT ![app.r].init = TRUE, ![app.r].w = w,
                        ![app.r].rootCb = TRUE, ![app.r].rootW = TRUE]
  /\ wrapper' = [wrapper EXCEPT ![w] = alloc(rec[app.r].kind, app.r)]
  /\ app' = AppManaged
  /\ UNCHANGED <<refs, registered, holds, cb, nrel, xrel, outcome, halted, call>>

\* ocaml_spotify_session_release, ocaml_spotify_search_release,
\* ocaml_spotify_albumbrowse_release: the call. On a NULL pointer the finalizer
\* does nothing and the call is over at once; otherwise the finalizer's
\* statements follow one by one.
ReleaseRec(w) ==
  /\ InManaged
  /\ Usable(w)
  /\ wrapper[w].kind \in RecKinds
  /\ IF record_guard(wrapper[w].ptr)
       THEN /\ app' = [pc |-> "release", w |-> w, r |-> wrapper[w].ptr, i |-> 1]
            /\ UNCHANGED <<wrapper, xrel, outcome>>
       ELSE /\ wrapper' = [wrapper EXCEPT ![w].ptr = release_store(@)]
            /\ xrel' = [xrel EXCEPT ![w] = called(@)]
            /\ outcome' = NoOutcome
            /\ app' = app
  /\ UNCHANGED <<refs, rec, registered, holds, cb, nrel, halted, call>>

\* The next statement of the finalizer called by the release stub.
ReleaseStep ==
  /\ ~halted
  /\ app.pc = "release"
  /\ app.i <= Len(finalize_body(wrapper[app.w].kind))
  /\ LET s == effect([rec |-> rec, nrel |-> nrel],
                     finalize_body(wrapper[app.w].kind)[app.i], app.r, app.w)
     IN rec' = s.rec /\ nrel' = s.nrel
  /\ app' = [app EXCEPT !.i = @ + 1]
  /\ UNCHANGED <<wrapper, refs, registered, holds, cb, xrel, outcome, halted, call>>

\* `<Kind>_val(x) = NULL; return Val_unit;` after the finalizer has returned.
ReleaseReturn ==
  /\ ~halted
  /\ app.pc = "release"
  /\ app.i > Len(finalize_body(wrapper[app.w].kind))
  /\ wrapper' = [wrapper EXCEPT ![app.w].ptr = release_store(@)]
  /\ xrel' = [xrel EXCEPT ![app.w] = called(@)]
  /\ outcome' = NoOutcome
  /\ app' = AppManaged
  /\ UNCHANGED <<refs, rec, registered, holds, cb, nrel, halted, call>>

\* ocaml_spotify_session_process_events: get_session, then the native call,
\* inside which the library invokes callbacks on the calling thread.
EventsStart(v) ==
  /\ InManaged
  /\ Usable(v)
  /\ wrapper[v].kind = "session"
  /\ outcome' = [w |-> v, res |-> get_result(wrapper[v].ptr)]
  /\ app' = IF get_raises(wrapper[v].ptr) THEN app
            ELSE [pc |-> "events", w |-> v, r |-> wrapper[v].ptr, i |-> 0]
  /\ UNCHANGED <<wrapper, refs, rec, registered, holds, cb, nrel, xrel, halted, call>>

EventsReturn ==
  /\ ~halted
  /\ app.pc = "events"
  /\ cb[App].pc = "idle"
  /\ app' = AppManaged
  /\ UNCHANGED <<wrapper, refs, rec, registered, holds, cb, nrel, xrel, outcome, halted, call>>

\* Data_custom_val(x): the address of the data of custom block x, which is part
\* of the block (never NULL); the wrapped pointer is what is stored there.
Data_custom_val(w) == w

\* ocaml_spotify_is_null(x): `Val_bool(Data_custom_val(x) == NULL)`.
is_null(w) == Data_custom_val(w) = NULL

\* Managed code asks whether a handle it holds is null.
IsNull(w) ==
  /\ InManaged
  /\ Usable(w)
  /\ call' = [what |-> "is_null", kind |-> wrapper[w].kind, result |-> is_null(w),
              raises |-> get_raises(wrapper[w].ptr)]
  /\ UNCHANGED <<wrapper, refs, rec, app, registered, holds, cb, nrel, xrel, outcome,
                 halted>>

\* xmalloc(size): `if (ptr == NULL) { perror(...); abort(); } return ptr;`.
xmalloc_unchecked(ptr) == "return"
xmalloc(ptr) == IF ptr = NULL THEN "abort" ELSE "return"

\* The native creates of the stubs that allocate a record with new(...).
CreateFns == {"sp_session_create", "sp_search_create", "sp_radio_search_create",
              "sp_albumbrowse_create"}

\* ocaml_spotify_session_create, ocaml_spotify_search_create,
\* ocaml_spotify_radio_search_create or ocaml_spotify_albumbrowse_create when
\* malloc has no memory left: new(...) is reached before the native create and
\* before any root is registered, and xmalloc aborts the process. (Were xmalloc
\* to return, the stub would go on to the native create with the NULL record.)
NoMemory(fn) ==
  /\ InManaged
  /\ fn \in CreateFns
  /\ halted' = (xmalloc(NULL) = "abort")
  /\ call' = [what |-> "xmalloc", fn |-> fn, ptr |-> NULL,
              native |-> xmalloc(NULL) = "return"]
  /\ UNCHANGED <<wrapper, refs, rec, app, registered, holds, cb, nrel, xrel, outcome>>

\* The stubs that forward a session handle, and some a track handle too, to a
\* native function; `checked` when the function returns an sp_error that the
\* stub tests.
Forward(fn, t, c) == [fn |-> fn, track |-> t, checked |-> c]

Forwards == {
  Forward("sp_session_relogin", FALSE, TRUE),
  Forward("sp_session_player_load", TRUE, TRUE),
  Forward("sp_session_player_prefetch", TRUE, TRUE),
  Forward("sp_session_player_unload", FALSE, FALSE),
  Forward("sp_track_is_available", TRUE, FALSE) }

\* What a stub does once its handles have been read: nothing more when a
\* get_<kind> raised, else the native call and `if (error) fail(...)`.
forwarded(s, null, error) ==
  IF null THEN StubCall(s.fn, TRUE, FALSE, 0, NullExn)
  ELSE StubCall(s.fn, FALSE, TRUE, error,
                IF s.checked /\ error_raises(error) THEN fail(s.fn, error) ELSE NoExn)

\* ocaml_spotify_session_relogin, ocaml_spotify_session_player_unload:
\* get_session(session), then the native call.
SessionCall(s, v, error) ==
  /\ InManaged
  /\ s \in Forwards /\ ~s.track
  /\ ~s.checked => error = 0
  /\ Usable(v)
  /\ wrapper[v].kind = "session"
  /\ outcome' = [w |-> v, res |-> get_result(wrapper[v].ptr)]
  /\ call' = forwarded(s, get_raises(wrapper[v].ptr), error)
  /\ UNCHANGED <<wrapper, refs, rec, app, registered, holds, cb, nrel, xrel, halted>>

\* ocaml_spotify_session_player_load, ocaml_spotify_session_player_prefetch,
\* ocaml_spotify_track_is_available: get_session(session) and get_track(track)
\* are both arguments of the native call, evaluated in either order (x is the
\* handle read first, y the other); the second is not read when the first raises.
SessionTrackCall(s, v, u, x, error) ==
  /\ InManaged
  /\ s \in Forwards /\ s.track
  /\ ~s.checked => error = 0
  /\ Usable(v) /\ wrapper[v].kind = "session"
  /\ Usable(u) /\ wrapper[u].kind = "track"
  /\ x \in {v, u}
  /\ LET y == IF x = v THEN u ELSE v IN
       /\ outcome' = IF get_raises(wrapper[x].ptr)
                       THEN [w |-> x, res |-> "null"]
                       ELSE [w |-> y, res |-> get_result(wrapper[y].ptr)]
       /\ call' = forwarded(s, get_raises(wrapper[x].ptr) \/ get_raises(wrapper[y].ptr),
                            error)
  /\ UNCHANGED <<wrapper, refs, rec, app, registered, holds, cb, nrel, xrel, halted>>

\* The garbage collector finalizes an unreachable wrapper while some thread
\* runs managed code.
Finalize(w) ==
  /\ ~halted
  /\ app.pc = "managed" \/ \E t \in Threads : cb[t].pc = "managed"
  /\ wrapper[w].st = "live"
  /\ ~wrapper[w].held
  /\ ~Pinned(w)
  /\ IF wrapper[w].kind \in PlainKinds
       THEN /\ refs' = plain_finalize(w).refs
            /\ nrel' = plain_finalize(w).nrel
            /\ rec' = rec
       ELSE /\ rec' = record_finalize(w).rec
            /\ nrel' = record_finalize(w).nrel
            /\ refs' = refs
  /\ wrapper' = [wrapper EXCEPT ![w].st = "finalized"]
  /\ UNCHANGED <<app, registered, holds, cb, xrel, outcome, halted, call>>

\* ------------------------------------------------------------------------
\* The runtime system and the callback trampolines.

\* caml_acquire_runtime_system returns once no thread holds the runtime.
runtime_free_nowait == TRUE
runtime_free == \A u \in Threads : ~holds[u]

\* The application thread, in managed code, enters a blocking section of the
\* runtime (and gives the runtime up), and later leaves it.
AppBlock ==
  /\ InManaged
  /\ holds[App]
  /\ holds' = [holds EXCEPT ![App] = FALSE]
  /\ app' = [app EXCEPT !.pc = "blocked"]
  /\ UNCHANGED <<wrapper, refs, rec, registered, cb, nrel, xrel, outcome, halted, call>>

AppUnblock ==
  /\ ~halted
  /\ app.pc = "blocked"
  /\ runtime_free
  /\ holds' = [holds EXCEPT ![App] = TRUE]
  /\ app' = [app EXCEPT !.pc = "managed"]
  /\ UNCHANGED <<wrapper, refs, rec, registered, cb, nrel, xrel, outcome, halted, call>>

\* The native library calls a trampoline on thread t with record r as its
\* userdata: a session callback (logged_in ... offline_status_updated) of a live
\* session, or search_complete / albumbrowse_complete of a pending request, once.
\* On the application thread this happens inside sp_session_process_events, or
\* inside the native create of a request that completes at once
\* (sp_search_create, sp_albumbrowse_create calling the completion callback
\* before they return).
Invoke(t, r) ==
  /\ ~halted
  /\ cb[t].pc = "idle"
  /\ t = App => (app.pc = "events" \/ (app.pc = "create" /\ r = app.r))
  /\ rec[r].sp = "alive"
  /\ rec[r].kind \in CbKinds => ~rec[r].fired
  /\ cb' = [cb EXCEPT ![t] = [pc |-> "enter", reg |-> FALSE, r |-> r, read |-> "none",
                              wasReg |-> registered[t], wasHolds |-> holds[t]]]
  /\ rec' = [rec EXCEPT ![r].fired = (rec[r].kind \in CbKinds)]
  /\ UNCHANGED <<wrapper, refs, app, registered, holds, nrel, xrel, outcome, halted, call>>

\* ENTER_CALLBACK, first line: caml_c_thread_register() returns 1 when it
\* registered the thread, 0 when the thread was registered already.
Register(t) ==
  /\ ~halted
  /\ cb[t].pc = "enter"
  /\ cb' = [cb EXCEPT ![t].reg = ~registered[t],
                      ![t].pc = IF registered[t] THEN "body" ELSE "acquire"]
  /\ registered' = [registered EXCEPT ![t] = TRUE]
  /\ UNCHANGED <<wrapper, refs, rec, app, holds, nrel, xrel, outcome, halted, call>>

\* ENTER_CALLBACK, second line: caml_acquire_runtime_system().
Acquire(t) ==
  /\ ~halted
  /\ cb[t].pc = "acquire"
  /\ runtime_free
  /\ holds' = [holds EXCEPT ![t] = TRUE]
  /\ cb' = [cb EXCEPT ![t].pc = "body"]
  /\ UNCHANGED <<wrapper, refs, rec, app, registered, nrel, xrel, outcome, halted, call>>

\* What a trampoline finds when it reads the fields of record r.
read_record(r) ==
  IF rec[r].mem = "freed" THEN "freed"
  ELSE IF ~rec[r].init THEN "uninit"
  ELSE IF ~(rec[r].rootCb /\ rec[r].rootW) THEN "unrooted"
  ELSE "valid"

\* The body of a trampoline up to the call: the record is read (data->callbacks,
\* data->session; search->callback, search->search) and the managed callback
\* called. Reading a freed or unwritten record is undefined: the process may
\* stop there, or go on with what it read.
Dispatch(t, crash) ==
  /\ ~halted
  /\ cb[t].pc = "body"
  /\ crash => read_record(cb[t].r) \in {"freed", "uninit"}
  /\ cb' = [cb EXCEPT ![t].read = read_record(cb[t].r),
                      ![t].pc = IF crash THEN "crashed" ELSE "managed"]
  /\ halted' = crash
  /\ UNCHANGED <<wrapper, refs, rec, app, registered, holds, nrel, xrel, outcome, call>>

\* The managed callback returns.
Return(t) ==
  /\ ~halted
  /\ cb[t].pc = "managed"
  /\ cb' = [cb EXCEPT ![t].pc = "leave"]
  /\ UNCHANGED <<wrapper, refs, rec, app, registered, holds, nrel, xrel, outcome, halted, call>>

\* The managed callback raises: caml_callback* re-raises, and the rest of the
\* trampoline (LEAVE_CALLBACK) is not run. On a thread that ENTER_CALLBACK
\* registered there is no handler and the exception is fatal; on the application
\* thread it unwinds to the managed caller of the stub.
Raise(t) ==
  /\ ~halted
  /\ cb[t].pc = "managed"
  /\ IF cb[t].reg
       THEN /\ cb' = [cb EXCEPT ![t].pc = "raised"]
            /\ halted' = TRUE
            /\ app' = app
       ELSE /\ cb' = [cb EXCEPT ![t] = NoCb]
            /\ halted' = FALSE
            /\ app' = AppManaged
  /\ UNCHANGED <<wrapper, refs, rec, registered, holds, nrel, xrel, outcome, call>>

\* A conversion to a signed integer of the given width keeps the low bits.
narrow(x, bits) == ((x + 2^(bits - 1)) % 2^bits) - 2^(bits - 1)

\* Val_int(x): the OCaml integer of a C int. Int_val(v): (int) Long_val(v).
Val_int(x) == narrow(x, ValBits)
Int_val(v) == narrow(v, IntBits)

IntRange == -(2^(IntBits - 1)) .. 2^(IntBits - 1) - 1
ValRange == -(2^(ValBits - 1)) .. 2^(ValBits - 1) - 1

\* format->sample_type: the one case of the switch in frame_size, or any other
\* value (its default branch).
SampleTypes == {"SP_SAMPLETYPE_INT16_NATIVE_ENDIAN", "default"}

\* frame_size(format).
frame_size(format) ==
  IF format.sample_type = "SP_SAMPLETYPE_INT16_NATIVE_ENDIAN"
    THEN format.channels * 2 ELSE -1

\* music_delivery calls the managed method whatever num_frames is.
delivery_skips_empty(num_frames) == num_frames # 0
delivery_invokes(num_frames) == TRUE

\* music_delivery(session, format, frames, num_frames), in one piece, on a
\* thread that can enter (the application thread inside
\* sp_session_process_events, or a native thread when the runtime is free) and
\* with a valid userdata record: the managed "music_delivery" method gets
\* Val_int(num_frames) and a byte array of num_frames * frame_size(format)
\* bytes, returns result, and the trampoline returns Int_val(result). The
\* arguments of the call and the result of the method are those of `call`.
MusicDelivery(t, r) ==
  /\ ~halted
  /\ call.what = "delivery_args"
  /\ cb[t].pc = "idle"
  /\ IF t = App THEN app.pc = "events" ELSE ~registered[t] /\ runtime_free
  /\ rec[r].kind = "session" /\ rec[r].sp = "alive"
  /\ read_record(r) = "valid"
  /\ call' = [what |-> "music_delivery", num_frames |-> call.num_frames,
              format |-> call.format,
              dim |-> call.num_frames * frame_size(call.format),
              invoked |-> IF delivery_invokes(call.num_frames) THEN 1 ELSE 0,
              passed |-> Val_int(call.num_frames), result |-> call.result,
              returned |-> IF delivery_invokes(call.num_frames)
                             THEN Int_val(call.result) ELSE 0]
  /\ UNCHANGED <<wrapper, refs, rec, app, registered, holds, cb, nrel, xrel, outcome,
                 halted>>

\* Data_custom_val(x) of the custom blocks: an address each, one per block.
Addresses == 0 .. 2^PtrBits - 1

\* spotify_compare(a, b), on the addresses of the two blocks' data.
spotify_compare(a, b) == narrow(a - b, IntBits)

\* spotify_hash(x).
spotify_hash(x) == x

\* The runtime compares (and hashes) the two custom blocks it was given.
Compare ==
  /\ ~halted
  /\ call.what = "compare_args"
  /\ call' = [what |-> "compare", a |-> call.a, b |-> call.b,
              result |-> spotify_compare(call.a, call.b),
              hash_a |-> spotify_hash(call.a), hash_b |-> spotify_hash(call.b)]
  /\ UNCHANGED <<wrapper, refs, rec, app, registered, holds, cb, nrel, xrel, outcome,
                 halted>>

\* `if (__caml_thread_registered)` of LEAVE_CALLBACK.
leave_guard_always(reg) == TRUE
leave_guard(reg) == reg

\* LEAVE_CALLBACK: caml_release_runtime_system(); caml_c_thread_unregister().
Leave(t) ==
  /\ ~halted
  /\ cb[t].pc = "leave"
  /\ holds' = IF leave_guard(cb[t].reg) THEN [holds EXCEPT ![t] = FALSE] ELSE holds
  /\ registered' = IF leave_guard(cb[t].reg) THEN [registered EXCEPT ![t] = FALSE]
                   ELSE registered
  /\ cb' = [cb EXCEPT ![t].pc = "idle"]
  /\ UNCHANGED <<wrapper, refs, rec, app, nrel, xrel, outcome, halted, call>>

\* sp_session_release ends the library's threads: it returns once none of them
\* is inside a callback. The stub calls it holding the runtime.
native_call_returns == \A t \in Native : cb[t].pc = "idle"

\* The next statement of the finalizer called by the release stub, when the
\* native release of a session waits for the library's threads.
ReleaseStepWait ==
  /\ ~halted
  /\ app.pc = "release"
  /\ app.i <= Len(finalize_body(wrapper[app.w].kind))
  /\ (wrapper[app.w].kind = "session"
        /\ finalize_body(wrapper[app.w].kind)[app.i] = "sp_release")
       => native_call_returns
  /\ ReleaseStep

\* What managed code on the application thread can do with the handles.
Next ==
  \/ \E s \in Stubs, w \in Wrappers, p \in Obj \cup {NULL} : Construct(s, w, p)
  \/ \E s \in Stubs, v, w \in Wrappers, p \in Obj \cup {NULL} : WrapFrom(s, v, w, p)
  \/ \E w \in Wrappers : Get(w)
  \/ \E w \in Wrappers : ReleasePlain(w)
  \/ \E w \in Wrappers : Drop(w)
  \/ \E w \in Wrappers : Finalize(w)
  \/ \E w \in Wrappers, r \in Recs, error \in Codes : SessionCreate(w, r, error)
  \/ \E k \in CbKinds, v \in Wrappers, a \in Obj \cup {NULL}, r \in Recs :
       CreateStart(k, v, a, r)
  \/ \E w \in Wrappers : CreateFinish(w)
  \/ \E w \in Wrappers : ReleaseRec(w)
  \/ ReleaseStep
  \/ ReleaseReturn

Spec == Init /\ [][Next]_vars

\* The stubs that forward handles to native calls which can fail: a session and
\* a local track are created, used and released.
NextStubs ==
  \/ \E w \in Wrappers, r \in Recs, error \in Codes : SessionCreate(w, r, error)
  \/ \E s \in Stubs, w \in Wrappers, p \in Obj \cup {NULL} : Construct(s, w, p)
  \/ \E fn \in CreateFns : NoMemory(fn)
  \/ \E w \in Wrappers : IsNull(w)
  \/ \E s \in Forwards, v \in Wrappers, error \in Codes : SessionCall(s, v, error)
  \/ \E s \in Forwards, v, u, x \in Wrappers, error \in Codes :
       SessionTrackCall(s, v, u, x, error)
  \/ \E k \in CbKinds, v \in Wrappers, a \in Obj \cup {NULL}, r \in Recs :
       CreateStart(k, v, a, r)
  \/ \E w \in Wrappers : CreateFinish(w)
  \/ \E w \in Wrappers : ReleasePlain(w)
  \/ \E w \in Wrappers : ReleaseRec(w)
  \/ ReleaseStep
  \/ ReleaseReturn

SpecStubs == Init /\ [][NextStubs]_vars

\* The trampolines: a session exists, the application thread creates and
\* releases requests and polls the library, whose threads call back.
InitCallbacks ==
  /\ wrapper = [w \in Wrappers |-> IF w = 1 THEN alloc("session", 1) ELSE NoWrapper]
  /\ refs = [p \in PlainKinds \X Obj |-> 0]
  /\ rec = [r \in Recs |-> IF r = 1
              THEN [kind |-> "session", mem |-> "allocated", init |-> TRUE,
                    rootCb |-> TRUE, rootW |-> TRUE, sp |-> "alive", w |-> 1,
                    fired |-> FALSE]
              ELSE NoRec]
  /\ app = AppManaged
  /\ registered = [t \in Threads |-> t = App]
  /\ holds = [t \in Threads |-> t = App]
  /\ cb = [t \in Threads |-> NoCb]
  /\ nrel = [w \in Wrappers |-> 0]
  /\ xrel = [w \in Wrappers |-> "never"]
  /\ outcome = NoOutcome
  /\ halted = FALSE
  /\ call = NoCall

NextCallbacks ==
  \/ \E k \in CbKinds, v \in Wrappers, a \in Obj \cup {NULL}, r \in Recs :
       CreateStart(k, v, a, r)
  \/ \E w \in Wrappers : CreateFinish(w)
  \/ \E w \in Wrappers : ReleaseRec(w)
  \/ ReleaseStep
  \/ ReleaseReturn
  \/ \E v \in Wrappers : EventsStart(v)
  \/ EventsReturn
  \/ AppBlock
  \/ AppUnblock
  \/ \E t \in Threads, r \in Recs : Invoke(t, r)
  \/ \E t \in Threads : Register(t)
  \/ \E t \in Threads : Acquire(t)
  \/ \E t \in Threads, crash \in BOOLEAN : Dispatch(t, crash)
  \/ \E t \in Threads : Return(t)
  \/ \E t \in Threads : Raise(t)
  \/ \E t \in Threads : Leave(t)

SpecCallbacks == InitCallbacks /\ [][NextCallbacks]_vars

\* Requests whose handle managed code drops instead of releasing: the handles
\* are created, dropped and collected while the library completes the requests.
NextRequests ==
  \/ \E k \in CbKinds, v \in Wrappers, a \in Obj \cup {NULL}, r \in Recs :
       CreateStart(k, v, a, r)
  \/ \E w \in Wrappers : CreateFinish(w)
  \/ \E w \in Wrappers : Drop(w)
  \/ \E w \in Wrappers : Finalize(w)
  \/ \E w \in Wrappers : ReleaseRec(w)
  \/ ReleaseStep
  \/ ReleaseReturn
  \/ AppBlock
  \/ AppUnblock
  \/ \E t \in Threads, r \in Recs : Invoke(t, r)
  \/ \E t \in Threads : Register(t)
  \/ \E t \in Threads : Acquire(t)
  \/ \E t \in Threads, crash \in BOOLEAN : Dispatch(t, crash)
  \/ \E t \in Threads : Return(t)
  \/ \E t \in Threads : Leave(t)

SpecRequests == InitCallbacks /\ [][NextRequests]_vars

\* Scheduling: a session is polled and released while the library's threads
\* call back, and sp_session_release waits for those threads.
NextBlocking ==
  \/ \E w \in Wrappers : ReleaseRec(w)
  \/ ReleaseStepWait
  \/ ReleaseReturn
  \/ \E v \in Wrappers : EventsStart(v)
  \/ EventsReturn
  \/ AppBlock
  \/ AppUnblock
  \/ \E t \in Threads, r \in Recs : Invoke(t, r)
  \/ \E t \in Threads : Register(t)
  \/ \E t \in Threads : Acquire(t)
  \/ \E t \in Threads, crash \in BOOLEAN : Dispatch(t, crash)
  \/ \E t \in Threads : Return(t)
  \/ \E t \in Threads : Leave(t)

\* Every thread that can take a step of its code eventually takes it;
\* sp_session_process_events returns after finitely many callbacks; a thread in
\* managed code yields the runtime again and again (the runtime's tick), and a
\* thread waiting for the runtime gets it if it is free again and again.
FairBlocking ==
  /\ WF_vars(ReleaseStepWait \/ ReleaseReturn \/ AppUnblock)
  /\ SF_vars(EventsReturn)
  /\ SF_vars(AppBlock)
  /\ \A t \in Threads :
       /\ WF_vars(Register(t) \/ (\E crash \in BOOLEAN : Dispatch(t, crash))
                    \/ Return(t) \/ Leave(t))
       /\ SF_vars(Acquire(t))

SpecBlocking == InitCallbacks /\ [][NextBlocking]_vars /\ FairBlocking

\* The comparison of handles: two custom blocks anywhere in the address space.
InitCompare ==
  /\ wrapper = [w \in Wrappers |-> NoWrapper]
  /\ refs = [p \in PlainKinds \X Obj |-> 0]
  /\ rec = [r \in Recs |-> NoRec]
  /\ app = AppManaged
  /\ registered = [t \in Threads |-> t = App]
  /\ holds = [t \in Threads |-> t = App]
  /\ cb = [t \in Threads |-> NoCb]
  /\ nrel = [w \in Wrappers |-> 0]
  /\ xrel = [w \in Wrappers |-> "never"]
  /\ outcome = NoOutcome
  /\ halted = FALSE
  /\ \E a, b \in Addresses : call = [what |-> "compare_args", a |-> a, b |-> b]

NextCompare == Compare

SpecCompare == InitCompare /\ [][NextCompare]_vars

\* Audio delivery: a session exists, the application thread polls the library
\* or blocks, and the library delivers a buffer of any format and length, to
\* which the managed method answers any integer.
InitDelivery ==
  /\ wrapper = [w \in Wrappers |-> IF w = 1 THEN alloc("session", 1) ELSE NoWrapper]
  /\ refs = [p \in PlainKinds \X Obj |-> 0]
  /\ rec = [r \in Recs |-> IF r = 1
              THEN [kind |-> "session", mem |-> "allocated", init |-> TRUE,
                    rootCb |-> TRUE, rootW |-> TRUE, sp |-> "alive", w |-> 1,
                    fired |-> FALSE]
              ELSE NoRec]
  /\ app = AppManaged
  /\ registered = [t \in Threads |-> t = App]
  /\ holds = [t \in Threads |-> t = App]
  /\ cb = [t \in Threads |-> NoCb]
  /\ nrel = [w \in Wrappers |-> 0]
  /\ xrel = [w \in Wrappers |-> "never"]
  /\ outcome = NoOutcome
  /\ halted = FALSE
  /\ \E st \in SampleTypes, ch \in 1..MaxChannels, n \in 0..MaxFrames, m \in ValRange :
       call = [what |-> "delivery_args", format |-> [sample_type |-> st, channels |-> ch],
               num_frames |-> n, result |-> m]

NextDelivery ==
  \/ \E v \in Wrappers : EventsStart(v)
  \/ EventsReturn
  \/ AppBlock
  \/ AppUnblock
  \/ \E t \in Threads, r \in Recs : MusicDelivery(t, r)

SpecDelivery == InitDelivery /\ [][NextDelivery]_vars

\* ------------------------------------------------------------------------
\* Properties.

Live(w) == wrapper[w].st = "live"

\* C1: for every wrapper, whatever the order of explicit releases and of the
\* collector's finalizer, the native release is called at most once for it, and
\* exactly once by the time a wrapper of a non-null pointer that was never
\* released explicitly has been finalized.
C1_ReleasedOnce ==
  \A w \in Wrappers :
    /\ nrel[w] <= 1
    /\ (wrapper[w].st = "finalized" /\ xrel[w] = "never" /\ wrapper[w].ptr # NULL)
         => nrel[w] = 1

\* One wrapper finalized without an explicit release, another finalized after one.
C1_Witness ==
  /\ \E w \in Wrappers :
       wrapper[w].st = "finalized" /\ xrel[w] = "never" /\ wrapper[w].ptr # NULL
         /\ nrel[w] = 1
  /\ \E w \in Wrappers :
       wrapper[w].st = "finalized" /\ xrel[w] # "never" /\ nrel[w] = 1

\* C2: once an explicit release of a handle has returned, every later get_<kind>
\* on that handle raises "spotify:null".
C2_ReleasedHandleRaisesNull ==
  (outcome.w # NULL /\ xrel[outcome.w] # "never") => outcome.res = "null"

\* A released session handle was read and the read raised.
C2_Witness ==
  /\ outcome.w # NULL
  /\ wrapper[outcome.w].kind = "session"
  /\ xrel[outcome.w] # "never"
  /\ nrel[outcome.w] = 1
  /\ outcome.res = "null"

\* C3: an explicit release of a handle whose pointer is already NULL calls no
\* native release, removes no root, frees no record and leaves the pointer NULL.
C3_ReleaseOfNullChangesNothing ==
  [][\A w \in Wrappers :
       (wrapper[w].ptr = NULL /\ (ReleasePlain(w) \/ ReleaseRec(w)))
         => (wrapper'[w].ptr = NULL /\ refs' = refs /\ rec' = rec /\ nrel' = nrel
             /\ app' = app)]_vars

\* A search or albumbrowse handle released twice, natively released once.
C3_Witness ==
  \E w \in Wrappers :
    /\ wrapper[w].kind \in CbKinds
    /\ xrel[w] = "again"
    /\ nrel[w] = 1
    /\ wrapper[w].ptr = NULL

\* A thread is executing managed code or a stub.
Running(t) ==
  IF t = App THEN app.pc # "blocked" ELSE cb[t].pc \in {"body", "managed", "leave"}

\* C4: at most one thread executes managed code (or a stub) at any time, and a
\* trampoline body only runs on a thread that holds the runtime.
C4_OneThreadInManagedCode ==
  /\ Cardinality({t \in Threads : Running(t)}) <= 1
  /\ \A t \in Threads : cb[t].pc \in {"body", "managed", "leave"} => holds[t]

\* One native thread runs its managed callback while another waits to acquire.
C4_Witness ==
  \E t, u \in Native :
    t # u /\ cb[t].pc = "managed" /\ cb[u].pc = "acquire" /\ app.pc = "blocked"

\* C5: when the managed callback of a trampoline raises on a thread that
\* ENTER_CALLBACK registered, the runtime is still released and the thread still
\* unregistered.
C5_PairingCompletesOnRaise ==
  \A t \in Threads : cb[t].pc = "raised" => (~holds[t] /\ ~registered[t])

\* C6: a trampoline that returns normally leaves its thread registered, and
\* holding the runtime, exactly as it was when the trampoline was entered.
C6_TrampolineRestoresThread ==
  [][\A t \in Threads :
       (cb[t].pc = "leave" /\ cb'[t].pc = "idle")
         => (registered'[t] = cb[t].wasReg /\ holds'[t] = cb[t].wasHolds)]_vars

\* A trampoline has returned on the application thread and one on a native thread.
C6_Witness ==
  /\ cb[App].pc = "idle" /\ cb[App].read = "valid"
  /\ \E t \in Native : cb[t].pc = "idle" /\ cb[t].read = "valid" /\ ~registered[t]

\* C7: between stub calls, the two roots of every record are registered exactly
\* while its native resource has been created and not released, both or neither,
\* and never on a freed record.
C7_RootsFollowNativeLifetime ==
  app.pc = "managed" =>
    \A r \in Recs :
      /\ rec[r].rootW = rec[r].rootCb
      /\ rec[r].rootW <=> rec[r].sp = "alive"
      /\ rec[r].rootW => rec[r].mem = "allocated"

\* C8: a completion trampoline never reads a freed record or an unregistered root.
C8_CompletionReadsValidRecord ==
  \A t \in Threads :
    (cb[t].r # NULL /\ rec[cb[t].r].kind \in CbKinds)
      => cb[t].read \notin {"freed", "unrooted"}

\* C9: between stub calls, every native object has as many references owned by
\* the wrapper layer as there are live wrappers pointing at it, and every record's
\* native resource is owned by exactly one live wrapper.
C9_OneReferencePerWrapper ==
  app.pc = "managed" =>
    /\ \A k \in PlainKinds, o \in Obj :
         refs[<<k, o>>] =
           Cardinality({w \in Wrappers :
                          Live(w) /\ wrapper[w].kind = k /\ wrapper[w].ptr = o})
    /\ \A r \in Recs :
         Cardinality({w \in Wrappers :
                        Live(w) /\ wrapper[w].kind \in RecKinds /\ wrapper[w].ptr = r})
           = IF rec[r].sp = "alive" THEN 1 ELSE 0

\* An album wrapper (only accessors return albums) owns the one reference held.
C9_Witness ==
  /\ app.pc = "managed"
  /\ \E w \in Wrappers :
       /\ Live(w) /\ wrapper[w].kind = "album" /\ wrapper[w].ptr \in Obj
       /\ refs[<<"album", wrapper[w].ptr>>] = 1

\* C10: in an explicit release of a session, search or albumbrowse handle the
\* native release comes first: as long as it has not been called, both roots are
\* registered and the record is allocated.
C10_NativeReleaseFirst ==
  (app.pc = "release" /\ rec[app.r].sp = "alive")
    => (rec[app.r].mem = "allocated" /\ rec[app.r].rootW /\ rec[app.r].rootCb)

\* C11: a stub given a handle that holds NULL raises "spotify:null" and does not
\* call the native function.
C11_NullHandleNeverReachesNative ==
  (call.what = "stub" /\ call.nullIn) => (call.raised = NullExn /\ ~call.native)

\* C12: a stub that tests the sp_error of the native call raises "spotify:error"
\* with the name of that function and the code it returned if and only if the
\* code is not zero, and otherwise returns normally; it never raises
\* "spotify:null" once the native function has been called.
C12_ErrorRaisedIffCodeNonZero ==
  (call.what = "stub" /\ call.native
     /\ call.fn \in {"sp_session_create", "sp_session_relogin",
                     "sp_session_player_load", "sp_session_player_prefetch"})
    => /\ call.code # 0 => call.raised = [exn |-> "spotify:error", func |-> call.fn,
                                          code |-> call.code]
       /\ call.code = 0 => call.raised = [exn |-> "none"]
       /\ call.raised # NullExn

\* player_load has raised "spotify:error" with the highest code.
C12_Witness ==
  /\ call.what = "stub" /\ call.fn = "sp_session_player_load" /\ call.native
  /\ call.code = MaxCode
  /\ call.raised.exn = "spotify:error" /\ call.raised.code = MaxCode

\* C13: after sp_session_create has returned an error, the stub has raised
\* "spotify:error" with that code, the record is not allocated, neither of its
\* roots is registered, and the wrapper made for the session holds NULL and is
\* never released natively.
C13_FailedCreateIsClean ==
  /\ (call.what = "stub" /\ call.fn = "sp_session_create" /\ call.code # 0)
       => call.raised = fail("sp_session_create", call.code)
  /\ \A r \in Recs :
       (rec[r].kind = "session" /\ rec[r].sp = "none")
         => /\ rec[r].mem # "allocated"
            /\ ~rec[r].rootW /\ ~rec[r].rootCb
            /\ wrapper[rec[r].w].ptr = NULL
            /\ nrel[rec[r].w] = 0

\* C14 as stated: music_delivery calls the managed method once with num_frames
\* unchanged and returns exactly the integer the method returned.
C14_DeliveryForwardsExactly ==
  call.what = "music_delivery"
    => /\ call.invoked = 1
       /\ call.passed = call.num_frames
       /\ call.returned = call.result

\* C14, amended: ... and returns the integer the method returned converted to a
\* C int, which is that integer whenever it fits a C int.
C14_DeliveryForwardsAsInt ==
  call.what = "music_delivery"
    => /\ call.invoked = 1
       /\ call.passed = call.num_frames
       /\ call.returned = narrow(call.result, IntBits)
       /\ call.result \in IntRange => call.returned = call.result

\* An empty buffer was delivered while the application thread was blocked, and
\* the 0 the method returned was returned.
C14_Witness ==
  /\ call.what = "music_delivery"
  /\ call.num_frames = 0 /\ call.dim = 0 /\ call.invoked = 1
  /\ call.result = 0 /\ call.returned = 0
  /\ app.pc = "blocked"

\* C20: a completion trampoline never reads a record that the create stub has
\* not yet filled in (native pointer, callback, wrapper, both roots).
C20_CompletionReadsInitialisedRecord ==
  \A t \in Threads :
    (cb[t].r # NULL /\ rec[cb[t].r].kind \in CbKinds) => cb[t].read # "uninit"

\* C15: whenever a completion trampoline of a search or albumbrowse request has
\* read its record, it found the stored callback and the owning wrapper (the
\* record was allocated, filled in and rooted); and an accessor of a search or
\* albumbrowse handle that has not been released succeeds.
C15_CompletionDispatchesStoredCallback ==
  /\ \A t \in Threads :
       (cb[t].r # NULL /\ rec[cb[t].r].kind \in CbKinds /\ cb[t].read # "none")
         => cb[t].read = "valid"
  /\ (outcome.w # NULL /\ wrapper[outcome.w].kind \in CbKinds
        /\ xrel[outcome.w] = "never")
       => outcome.res = "ok"

\* The completion of the request of record r has been signalled and its
\* trampoline has returned.
Delivered(r) ==
  rec[r].fired /\ \A t \in Threads : cb[t].r = r => cb[t].pc = "idle"

\* C16: outside a release, the wrapper of a search or albumbrowse request is
\* pinned by its record as long as the completion has not been delivered, and
\* is no longer pinned once it has been delivered and managed code has dropped
\* the wrapper (so that the collector can finalize it).
C16_PinnedExactlyUntilDelivery ==
  \A w \in Wrappers :
    (Live(w) /\ wrapper[w].kind \in CbKinds /\ wrapper[w].ptr # NULL
       /\ app.pc # "release")
      => /\ ~Delivered(wrapper[w].ptr) => Pinned(w)
         /\ (Delivered(wrapper[w].ptr) /\ ~wrapper[w].held) => ~Pinned(w)

\* C17: spotify_compare returns 0 only for one and the same wrapper (two
\* wrappers are two blocks, at two addresses, whatever they wrap), and the sign
\* of its result is the order of the two addresses.
C17_CompareIsIdentity ==
  call.what = "compare"
    => /\ call.result = 0 <=> call.a = call.b
       /\ call.a < call.b => call.result < 0
       /\ call.a > call.b => call.result > 0

\* C18: when the allocation of a registration record fails, the process is
\* terminated there: the native create is not called, no root is registered, no
\* record or wrapper comes to exist, and from then on no step is taken.
C18_AllocationFailureAborts ==
  [][/\ \A fn \in CreateFns :
          NoMemory(fn) => (halted' /\ ~call'.native /\ rec' = rec /\ wrapper' = wrapper)
     /\ ~halted]_vars

\* A search could not allocate its record while a session was live.
C18_Witness ==
  /\ halted
  /\ call.what = "xmalloc" /\ call.fn = "sp_search_create" /\ ~call.native
  /\ \E r \in Recs : rec[r].kind = "session" /\ rec[r].sp = "alive"

\* C19: a native thread waiting for the runtime in ENTER_CALLBACK eventually
\* gets it (unless the process has terminated), also when the application
\* thread is inside a native call that waits for the library's threads.
C19_WaitingCallbackAcquires ==
  \A t \in Native : (cb[t].pc = "acquire") ~> (cb[t].pc # "acquire" \/ halted)

\* C21: ocaml_spotify_is_null(H) is true exactly when get_<kind>(H) would raise
\* "spotify:null", that is when the pointer H wraps is NULL.
C21_IsNullAgreesWithGet ==
  call.what = "is_null" => (call.result <=> call.raises)

\* C22: the length of the byte view music_delivery passes to the managed method
\* is never negative, whatever the format and num_frames, and is num_frames
\* times channels * 2 for 16-bit native-endian samples.
C22_ViewLengthIsFrameBytes ==
  call.what = "music_delivery"
    => /\ call.dim >= 0
       /\ call.format.sample_type = "SP_SAMPLETYPE_INT16_NATIVE_ENDIAN"
            => call.dim = call.num_frames * call.format.channels * 2

====
